---- MODULE Spec2Model ----
(***************************************************************************)
(* Widget registry and lifecycle of Serenity's corelib Widget base class   *)
(* (src/unnamed/part_000): construction, destroy, removal notifications,   *)
(* change subscriptions, the element lookups tryGetWidget / getWidget, the *)
(* css class derivation getCssClass and the factory Widget.create.         *)
(*                                                                         *)
(* Strings the code computes with (type names, widget names, unique names, *)
(* css classes) are sequences of one-character strings, so concatenation,  *)
(* replaceAll and number formatting are computed and can collide.          *)
(***************************************************************************)
EXTENDS Integers, Sequences, FiniteSets

\* ------------------------------------------------------------------ bounds
\* successful constructions a behaviour of Spec keeps track of
MaxWidgets == 3
\* highest value the process-wide counter reaches in Spec
MaxNumber == 4
\* the same in SpecEvents, and the handlers subscribed at one time through
\* change / changeSelect2
MaxWidgetsEvents == 2
MaxNumberEvents == 2
MaxSubs == 2
\* the same in SpecLookup
MaxWidgetsLookup == 2
MaxNumberLookup == 2
\* the same in SpecCreate
MaxWidgetsCreate == 4
MaxNumberCreate == 4
\* the same in SpecRules
MaxWidgetsRules == 3
MaxNumberRules == 3
\* root namespaces a configuration lists in SpecCss
MaxRoots == 2
\* successful constructions and counter values in SpecLong
MaxWidgetsLong == 2
MaxNumberLong == 11

\* ------------------------------------------------------------------ inputs
Elements == {"e1", "e2"}
Null == "null"
NoWidget == 0

\* The concrete widget classes behaviours construct. "T1" extends "T"; the
\* other two are unrelated classes registered as N.W and N_W.
WidgetTypes == {"T", "T1", "NW", "N_W"}
\* Types a lookup may ask for: the widget classes, the Widget base class and
\* an interface that NW implements.
QueryTypes == WidgetTypes \cup {"Widget", "IMarker"}

\* A dialog class, and the marker interface create() tells dialog classes by
DialogTypes == {"Dlg"}
\* NW and a class registered as M.W: other namespace, same short name
SharedClassTypes == {"NW", "MW"}
Types == QueryTypes \cup DialogTypes \cup {"IDialog"} \cup SharedClassTypes

TypeFullName ==
    [t \in Types |->
        CASE t = "T" -> <<"T">>
          [] t = "T1" -> <<"T", "1">>
          [] t = "NW" -> <<"N", ".", "W">>
          [] t = "N_W" -> <<"N", "_", "W">>
          [] t = "Widget" -> <<"S", "e", "r", "e", "n", "i", "t", "y", ".", "W", "i", "d", "g", "e", "t">>
          [] t = "IMarker" -> <<"I", "M", "a", "r", "k", "e", "r">>
          [] t = "MW" -> <<"M", ".", "W">>
          [] t = "Dlg" -> <<"D", "l", "g">>
          [] t = "IDialog" -> <<"I", "D", "i", "a", "l", "o", "g">>]

\* direct supertypes (extends / implements)
TypeBases ==
    [t \in Types |->
        CASE t = "T" -> {"Widget"}
          [] t = "T1" -> {"T"}
          [] t = "NW" -> {"Widget", "IMarker"}
          [] t = "N_W" -> {"Widget"}
          [] t = "Widget" -> {}
          [] t = "IMarker" -> {}
          [] t = "MW" -> {"Widget"}
          [] t = "Dlg" -> {"Widget", "IDialog"}
          [] t = "IDialog" -> {}]

\* Config.rootNamespaces
RootNamespaces == << <<"N">> >>

\* classes the markup gave the elements before any widget was built
InitialClasses == [e \in Elements |-> IF e = "e2" THEN {<<"s", "-", "W">>} ELSE {}]

\* handler functions callers pass to change / changeSelect2
Callbacks == {"h1"}

\* ---------------------------------------------------------- string helpers
Digits == <<"0", "1", "2", "3", "4", "5", "6", "7", "8", "9">>

\* Number.prototype.toString(): decimal digits, most significant first
RECURSIVE toString(_)
toString(n) ==
    IF n < 10 THEN <<Digits[n + 1]>>
    ELSE toString(n \div 10) \o <<Digits[(n % 10) + 1]>>

\* replaceAll(s, find, replace) for a one-character find
ReplaceAll(s, find, replace) ==
    [i \in 1..Len(s) |-> IF s[i] = find THEN replace ELSE s[i]]

StartsWith(s, p) == Len(p) <= Len(s) /\ SubSeq(s, 1, Len(p)) = p

\* s.substring(n): the characters from 0-based index n on
Substring(s, n) == SubSeq(s, n + 1, Len(s))

\* ------------------------------------------------------------- reflection
getTypeFullName(t) == TypeFullName[t]

\* the part of a full name after its last '.'
ShortName(s) ==
    LET dots == {i \in 1..Len(s) : s[i] = "."}
        last == IF dots = {} THEN 0 ELSE CHOOSE i \in dots : \A j \in dots : j <= i
    IN Substring(s, last)

getTypeShortName(t) == ShortName(TypeFullName[t])

RECURSIVE Ancestors(_)
Ancestors(t) == {t} \cup UNION {Ancestors(b) : b \in TypeBases[t]}

\* isAssignableFrom(target, type): a value of `type` can be used as `target`
isAssignableFrom(target, type) == target \in Ancestors(type)

\* Widget.getWidgetName(type)
getWidgetName(t) == ReplaceAll(getTypeFullName(t), ".", "_")

\* getCssClass() without the filter that drops repeated candidates (line 112)
cssClassListKeepAll(fullName, shortName, rootNamespaces) ==
    LET fullClass == ReplaceAll(fullName, ".", "-")
        matches == {k \in 1..Len(rootNamespaces) :
                        StartsWith(fullClass, rootNamespaces[k] \o <<"-">>)}
        first == CHOOSE k \in matches : \A j \in matches : k <= j
        classList ==
            <<fullClass>>
            \o (IF matches = {} THEN <<>>
                ELSE <<Substring(fullClass, Len(rootNamespaces[first]) + 1)>>)
            \o <<shortName>>
    IN [i \in 1..Len(classList) |-> <<"s", "-">> \o classList[i]]

\* Widget.getCssClass() (lines 96-113) of a class with the given full and
\* short name, under the configured root namespaces: the class tokens, in order
cssClassList(fullName, shortName, rootNamespaces) ==
    LET fullClass == ReplaceAll(fullName, ".", "-")
        matches == {k \in 1..Len(rootNamespaces) :
                        StartsWith(fullClass, rootNamespaces[k] \o <<"-">>)}
        first == CHOOSE k \in matches : \A j \in matches : k <= j
        classList ==
            <<fullClass>>
            \o (IF matches = {} THEN <<>>
                ELSE <<Substring(fullClass, Len(rootNamespaces[first]) + 1)>>)
            \o <<shortName>>
        kept == SelectSeq([i \in 1..Len(classList) |-> i],
                          LAMBDA i : \A j \in 1..(i - 1) : classList[j] # classList[i])
    IN [i \in 1..Len(kept) |-> <<"s", "-">> \o classList[kept[i]]]

\* Array.prototype.join(sep)
RECURSIVE Join(_, _)
Join(tokens, sep) ==
    IF tokens = <<>> THEN <<>>
    ELSE IF Len(tokens) = 1 THEN tokens[1]
    ELSE tokens[1] \o sep \o Join(Tail(tokens), sep)

\* Widget.getCssClass(): the class tokens of class t, in order (the code
\* joins them with single spaces; addClass / removeClass split them again)
getCssClass(t) == cssClassList(getTypeFullName(t), getTypeShortName(t), RootNamespaces)

Range(s) == {s[i] : i \in 1..Len(s)}

\* ------------------------------------------------------------------ state
VARIABLES
    nextWidgetNumber,   \* Widget.nextWidgetNumber
    widgets,            \* the widget objects built so far, in construction order
    data,               \* per element: jQuery data entries <<key, value>> in key order
    classes,            \* per element: its css classes
    handlers,           \* per element: the bound event handlers, in binding order
    outcome,            \* the last call: what was called, and what it returned or threw
    log                 \* what the last call did that others can see, in order

vars == <<nextWidgetNumber, widgets, data, classes, handlers, outcome, log>>

\* the element side and the objects, as one value the operations transform
Heap == [widgets |-> widgets, data |-> data, classes |-> classes, handlers |-> handlers]

\* jQuery .data(key): the value stored under key, NoWidget when there is none
DataGet(d, key) ==
    LET hits == {i \in 1..Len(d) : d[i][1] = key}
    IN IF hits = {} THEN NoWidget ELSE d[CHOOSE i \in hits : TRUE][2]

\* jQuery .data(key, value): a new key goes last in the key order
DataSet(d, key, value) ==
    IF \E i \in 1..Len(d) : d[i][1] = key
    THEN [i \in 1..Len(d) |-> IF d[i][1] = key THEN <<key, value>> ELSE d[i]]
    ELSE Append(d, <<key, value>>)

\* jQuery .removeData(key)
DataRemove(d, key) == SelectSeq(d, LAMBDA kv : kv[1] # key)

\* jQuery .off('.' + ns): every handler bound under namespace ns goes, of any event
Off(hs, ns) == SelectSeq(hs, LAMBDA h : h.ns # ns)

Init ==
    /\ nextWidgetNumber = 0
    /\ widgets = <<>>
    /\ data = [e \in Elements |-> <<>>]
    /\ classes = InitialClasses
    /\ handlers = [e \in Elements |-> <<>>]
    /\ outcome = [op |-> "none"]
    /\ log = <<>>

\* ------------------------------------------------------------- operations
\* destroy() that forgets to clear the element reference (line 88)
destroyKeepsElement(h, i) ==
    LET w == h.widgets[i]
        e == w.element
    IN IF e = Null THEN h
       ELSE [widgets |-> h.widgets,
             data |-> [h.data EXCEPT ![e] = DataRemove(@, w.widgetName)],
             classes |-> [h.classes EXCEPT ![e] = @ \ Range(getCssClass(w.type))],
             handlers |-> [h.handlers EXCEPT ![e] = Off(Off(@, w.widgetName), w.uniqueName)]]

\* destroy() that unbinds the widget-name namespace only (no .off('.' + uniqueName))
destroyKeepsSubscriptions(h, i) ==
    LET w == h.widgets[i]
        e == w.element
    IN IF e = Null THEN h
       ELSE [widgets |-> [h.widgets EXCEPT ![i].element = Null],
             data |-> [h.data EXCEPT ![e] = DataRemove(@, w.widgetName)],
             classes |-> [h.classes EXCEPT ![e] = @ \ Range(getCssClass(w.type))],
             handlers |-> [h.handlers EXCEPT ![e] = Off(@, w.widgetName)]]

\* destroy() that leaves the element's data entry (no .removeData(widgetName))
destroyKeepsEntry(h, i) ==
    LET w == h.widgets[i]
        e == w.element
    IN IF e = Null THEN h
       ELSE [widgets |-> [h.widgets EXCEPT ![i].element = Null],
             data |-> h.data,
             classes |-> [h.classes EXCEPT ![e] = @ \ Range(getCssClass(w.type))],
             handlers |-> [h.handlers EXCEPT ![e] = Off(Off(@, w.widgetName), w.uniqueName)]]

\* destroy() that clears the element's class attribute (removeClass())
destroyClearsClasses(h, i) ==
    LET w == h.widgets[i]
        e == w.element
    IN IF e = Null THEN h
       ELSE [widgets |-> [h.widgets EXCEPT ![i].element = Null],
             data |-> [h.data EXCEPT ![e] = DataRemove(@, w.widgetName)],
             classes |-> [h.classes EXCEPT ![e] = {}],
             handlers |-> [h.handlers EXCEPT ![e] = Off(Off(@, w.widgetName), w.uniqueName)]]

\* Widget.destroy() of widget i on heap h
destroy(h, i) ==
    LET w == h.widgets[i]
        e == w.element
    IN IF e = Null THEN h
       ELSE [widgets |-> [h.widgets EXCEPT ![i].element = Null],
             data |-> [h.data EXCEPT ![e] = DataRemove(@, w.widgetName)],
             classes |-> [h.classes EXCEPT ![e] = @ \ Range(getCssClass(w.type))],
             handlers |-> [h.handlers EXCEPT ![e] = Off(Off(@, w.widgetName), w.uniqueName)]]

\* the constructor without its duplicate check (lines 67-69)
ConstructUnchecked(t, e) ==
    LET widgetName == getWidgetName(t)
        uniqueName == widgetName \o toString(nextWidgetNumber)
        i == Len(widgets) + 1
        w == [type |-> t, element |-> e, widgetName |-> widgetName,
              uniqueName |-> uniqueName, idPrefix |-> uniqueName \o <<"_">>]
    IN /\ nextWidgetNumber' = nextWidgetNumber + 1
       /\ handlers' = [handlers EXCEPT ![e] =
                         Append(@, [event |-> "remove", ns |-> widgetName,
                                    kind |-> "observer", widget |-> i, callback |-> "destroy"])]
       /\ data' = [data EXCEPT ![e] = DataSet(@, widgetName, i)]
       /\ classes' = [classes EXCEPT ![e] = @ \cup Range(getCssClass(t))]
       /\ widgets' = Append(widgets, w)
       /\ outcome' = [op |-> "new", threw |-> "", value |-> i]
       /\ log' = <<>>

\* new type(element): the constructor, up to and including renderContents()
\* (a no-op in the base class). A construction that throws leaves no
\* reference to the half-built object behind.
Construct(t, e) ==
    LET widgetName == getWidgetName(t)
        uniqueName == widgetName \o toString(nextWidgetNumber)
        i == Len(widgets) + 1
        w == [type |-> t, element |-> e, widgetName |-> widgetName,
              uniqueName |-> uniqueName, idPrefix |-> uniqueName \o <<"_">>]
    IN /\ nextWidgetNumber' = nextWidgetNumber + 1
       /\ IF DataGet(data[e], widgetName) # NoWidget
          THEN /\ outcome' = [op |-> "new", threw |-> "Exception",
                              message |-> <<"The element already has widget '", widgetName, "'!">>]
               /\ UNCHANGED <<widgets, data, classes, handlers>>
          ELSE /\ handlers' = [handlers EXCEPT ![e] =
                                 Append(@, [event |-> "remove", ns |-> widgetName,
                                            kind |-> "observer", widget |-> i, callback |-> "destroy"])]
               /\ data' = [data EXCEPT ![e] = DataSet(@, widgetName, i)]
               /\ classes' = [classes EXCEPT ![e] = @ \cup Range(getCssClass(t))]
               /\ widgets' = Append(widgets, w)
               /\ outcome' = [op |-> "new", threw |-> "", value |-> i]
       /\ log' = <<>>

\* widget.destroy()
Destroy(i) ==
    LET h == destroy(Heap, i)
    IN /\ widgets' = h.widgets
       /\ data' = h.data
       /\ classes' = h.classes
       /\ handlers' = h.handlers
       /\ outcome' = [op |-> "destroy", noop |-> widgets[i].element = Null]
       /\ log' = <<>>
       /\ UNCHANGED nextWidgetNumber

\* the observer the constructor binds under 'remove.' + widgetName, run for
\* widget i with a notification whose flags are bubbles and cancelable
onRemove(h, i, bubbles, cancelable) ==
    IF bubbles \/ cancelable THEN h ELSE destroy(h, i)

\* jQuery dispatch of one notification: the handlers bound when the dispatch
\* starts all run, in binding order, also those an earlier one unbinds
RECURSIVE dispatchRemove(_, _, _, _)
dispatchRemove(h, queue, bubbles, cancelable) ==
    IF queue = <<>> THEN h
    ELSE dispatchRemove(onRemove(h, Head(queue).widget, bubbles, cancelable),
                        Tail(queue), bubbles, cancelable)

\* A removal notification reaches element e: jQuery runs the 'remove'
\* handlers bound to the element, none when none is bound. The flags are
\* those of the event object.
RemoveNotify(e, bubbles, cancelable) ==
    LET queue == SelectSeq(handlers[e], LAMBDA x : x.event = "remove")
        h == dispatchRemove(Heap, queue, bubbles, cancelable)
    IN /\ widgets' = h.widgets
       /\ data' = h.data
       /\ classes' = h.classes
       /\ handlers' = h.handlers
       /\ outcome' = [op |-> "remove", direct |-> ~(bubbles \/ cancelable)]
       /\ log' = <<>>
       /\ UNCHANGED nextWidgetNumber

\* how many handlers are subscribed through change / changeSelect2 right now
RECURSIVE SumOver(_, _)
SumOver(f, S) ==
    IF S = {} THEN 0
    ELSE LET x == CHOOSE y \in S : TRUE IN f[x] + SumOver(f, S \ {x})

Subscribed ==
    SumOver([e \in Elements |-> Len(SelectSeq(handlers[e], LAMBDA x : x.event = "change"))],
            Elements)

\* widget.change(handler) / widget.changeSelect2(handler): kind says which
subscribe(i, kind, cb) ==
    LET w == widgets[i]
        e == w.element
    IN /\ IF e = Null
          THEN /\ outcome' = [op |-> kind, threw |-> "TypeError"]
               /\ UNCHANGED handlers
          ELSE /\ Subscribed < MaxSubs
               /\ handlers' = [handlers EXCEPT ![e] =
                                 Append(@, [event |-> "change", ns |-> w.uniqueName,
                                            kind |-> kind, widget |-> i, callback |-> cb])]
               /\ outcome' = [op |-> kind, threw |-> ""]
       /\ log' = <<>>
       /\ UNCHANGED <<nextWidgetNumber, widgets, data, classes>>

Change(i, cb) == subscribe(i, "change", cb)

ChangeSelect2(i, cb) == subscribe(i, "changeSelect2", cb)

\* values a change notification may carry as its second argument, as
\* <<typeof, value>>; === is equality of the pair
JsTrue == <<"boolean", "true">>
ValueSets ==
    {<<"undefined", "">>, JsTrue, <<"boolean", "false">>, <<"object", "null">>,
     <<"number", "1">>, <<"string", "true">>}

\* the wrapper with == in place of ===: 1 == true holds in JavaScript
invokeLooseEquality(x, valueSet) ==
    IF x.kind = "changeSelect2" /\ valueSet \in {JsTrue, <<"number", "1">>} THEN <<>>
    ELSE <<[ev |-> "call", callback |-> x.callback, widget |-> x.widget]>>

\* what one bound change handler does with a notification: the calls of the
\* caller's handler it makes
invoke(x, valueSet) ==
    IF x.kind = "changeSelect2" /\ valueSet = JsTrue THEN <<>>
    ELSE <<[ev |-> "call", callback |-> x.callback, widget |-> x.widget]>>

RECURSIVE dispatchChange(_, _)
dispatchChange(queue, valueSet) ==
    IF queue = <<>> THEN <<>>
    ELSE invoke(Head(queue), valueSet) \o dispatchChange(Tail(queue), valueSet)

\* A change notification with second argument valueSet reaches element e
TriggerChange(e, valueSet) ==
    LET queue == SelectSeq(handlers[e], LAMBDA x : x.event = "change")
    IN /\ queue # <<>>
       /\ log' = dispatchChange(queue, valueSet)
       /\ outcome' = [op |-> "trigger", element |-> e, valueSet |-> valueSet]
       /\ UNCHANGED <<nextWidgetNumber, widgets, data, classes, handlers>>

\* ------------------------------------------------------- validation rules
\* event classes and rule functions callers pass to addValidationRule
EventClasses == {<<"x">>, <<"y">>}
Rules == {"r1"}

\* widget.addValidationRule(eventClass, rule): hands this.element (null once
\* the widget is destroyed), eventClass and rule to addValRule and returns
\* what that returns. addValRule is imported; the call is all this class does.
AddValidationRule(i, eventClass, rule) ==
    /\ log' = <<[ev |-> "addValRule", element |-> widgets[i].element,
                 eventClass |-> eventClass, rule |-> rule]>>
    /\ outcome' = [op |-> "addValidationRule", widget |-> i]
    /\ UNCHANGED <<nextWidgetNumber, widgets, data, classes, handlers>>

\* -------------------------------------------------------------- css classes
\* Registered full names getCssClass() is asked about: T, N.W, N_W, App.App,
\* App.Grid, Apps.Grid, App.Widgets.DatePicker, App.Widgets.Forms.DatePicker
CssNames ==
    {<<"T">>,
     <<"N", ".", "W">>,
     <<"N", "_", "W">>,
     <<"A", "p", "p", ".", "A", "p", "p">>,
     <<"A", "p", "p", ".", "G", "r", "i", "d">>,
     <<"A", "p", "p", "s", ".", "G", "r", "i", "d">>,
     <<"A", "p", "p", ".", "W", "i", "d", "g", "e", "t", "s", ".", "D", "a", "t", "e", "P", "i", "c", "k", "e", "r">>,
     <<"A", "p", "p", ".", "W", "i", "d", "g", "e", "t", "s", ".", "F", "o", "r", "m", "s", ".", "D", "a", "t", "e", "P", "i", "c", "k", "e", "r">>}

\* Root namespaces a configuration may list: S, N, App, App.Widgets
RootNamespacePool ==
    {<<"S">>,
     <<"N">>,
     <<"A", "p", "p">>,
     <<"A", "p", "p", ".", "W", "i", "d", "g", "e", "t", "s">>}

\* Config.rootNamespaces: up to MaxRoots of them, in configuration order
RootConfigs ==
    {c \in UNION {[1..n -> RootNamespacePool] : n \in 0..MaxRoots} :
        \A i, j \in 1..Len(c) : i # j => c[i] # c[j]}

\* widget.getCssClass() of a widget whose class is registered as fullName,
\* with Config.rootNamespaces = rootNamespaces: the joined string
GetCssClass(fullName, rootNamespaces) ==
    /\ outcome' = [op |-> "getCssClass", fullName |-> fullName,
                   rootNamespaces |-> rootNamespaces,
                   value |-> Join(cssClassList(fullName, ShortName(fullName), rootNamespaces),
                                  <<" ">>)]
    /\ log' = <<>>
    /\ UNCHANGED <<nextWidgetNumber, widgets, data, classes, handlers>>

\* ----------------------------------------------------------------- create
\* What Widget.create() is called with: the type, the container or Null, the
\* element customizer and the initializer. A customizer is absent, looks at
\* the element only, or builds a widget of class T on it
\* (e => new T(e)); an initializer is absent or present.
Containers == {Null, "c1"}
Customizers == {"absent", "look", "buildT"}
CreateParams ==
    [type : {"T", "T1", "Dlg"}, container : Containers,
     element : Customizers, init : BOOLEAN]

\* the elements no widget has left a trace on: $(html) yields one of these
FreshElements ==
    {e \in Elements : data[e] = <<>> /\ handlers[e] = <<>> /\ classes[e] = InitialClasses[e]}

\* A call of create() in progress: the heap and the counter so far, what it
\* has done (in order), and what its last construction threw or built.
Started(h, n) == [h |-> h, n |-> n, log |-> <<>>, threw |-> "", value |-> NoWidget]

Did(st, event) == [st EXCEPT !.log = Append(@, event)]

\* the Widget constructor (lines 59-82) on the state of a call in progress
construct(st, t, e) ==
    LET widgetName == getWidgetName(t)
        uniqueName == widgetName \o toString(st.n)
        i == Len(st.h.widgets) + 1
        w == [type |-> t, element |-> e, widgetName |-> widgetName,
              uniqueName |-> uniqueName, idPrefix |-> uniqueName \o <<"_">>]
    IN IF DataGet(st.h.data[e], widgetName) # NoWidget
       THEN [st EXCEPT !.n = @ + 1, !.threw = "Exception", !.value = NoWidget]
       ELSE [st EXCEPT
               !.n = @ + 1,
               !.h = [widgets |-> Append(@.widgets, w),
                      data |-> [@.data EXCEPT ![e] = DataSet(@, widgetName, i)],
                      classes |-> [@.classes EXCEPT ![e] = @ \cup Range(getCssClass(t))],
                      handlers |-> [@.handlers EXCEPT ![e] =
                                      Append(@, [event |-> "remove", ns |-> widgetName,
                                                 kind |-> "observer", widget |-> i,
                                                 callback |-> "destroy"])]],
               !.threw = "",
               !.value = i]

\* Widget.elementFor(type): looks the element template up and builds element e
elementFor(st, t, e) == Did(st, [ev |-> "elementFor", type |-> t, element |-> e])

\* if (params.container) element.appendTo(params.container)
appendTo(st, e, container) ==
    IF container = Null THEN st
    ELSE Did(st, [ev |-> "appendTo", element |-> e, container |-> container])

\* params.element && params.element(element). The customizer that builds a T
\* is only handed elements that carry no T, so it returns normally.
customize(st, customizer, e) ==
    IF customizer = "absent" THEN st
    ELSE LET called == Did(st, [ev |-> "params.element", element |-> e])
             built == construct(called, "T", e)
         IN IF customizer = "look" THEN called
            ELSE [built EXCEPT !.threw = st.threw, !.value = st.value]

\* new params.type(e, params.options)
newWidget(st, t, e) ==
    LET built == construct(st, t, e)
    IN Did(built, [ev |-> "new", type |-> t, args |-> <<"element", "options">>,
                   element |-> e, widget |-> built.value])

\* new params.type(params.options) of a dialog class: the class's own
\* constructor makes the root element e and passes it to the Widget constructor
newDialog(st, t, e) ==
    LET built == construct(st, t, e)
    IN Did(built, [ev |-> "new", type |-> t, args |-> <<"options">>,
                   element |-> e, widget |-> built.value])

\* widget.init(null); params.init && params.init(widget); return widget
initAndReturn(st, hasInit) ==
    LET hooked == Did(st, [ev |-> "init", widget |-> st.value])
    IN IF hasInit THEN Did(hooked, [ev |-> "params.init", widget |-> st.value])
       ELSE hooked

\* create() without its dialog branch (lines 148-153)
createNoDialogBranch(h, n, params, e) ==
    LET made == elementFor(Started(h, n), params.type, e)
        placed == appendTo(made, e, params.container)
        customized == customize(placed, params.element, e)
        built == newWidget(customized, params.type, e)
    IN IF built.threw # "" THEN built ELSE initAndReturn(built, params.init)

\* create() that hands the element to the customizer after construction in
\* both branches
createCustomizesLate(h, n, params, e) ==
    IF isAssignableFrom("IDialog", params.type)
    THEN LET built == newDialog(Started(h, n), params.type, e)
             own == built.h.widgets[built.value].element
             placed == appendTo(built, own, params.container)
             customized == customize(placed, params.element, own)
         IN IF built.threw # "" THEN built ELSE initAndReturn(customized, params.init)
    ELSE LET made == elementFor(Started(h, n), params.type, e)
             placed == appendTo(made, e, params.container)
             built == newWidget(placed, params.type, e)
             customized == customize(built, params.element, e)
         IN IF built.threw # "" THEN built ELSE initAndReturn(customized, params.init)

\* Widget.create(params); e is the element that $(html) yields, in
\* elementFor or in the dialog class's constructor
create(h, n, params, e) ==
    IF isAssignableFrom("IDialog", params.type)
    THEN LET built == newDialog(Started(h, n), params.type, e)
             own == built.h.widgets[built.value].element
             placed == appendTo(built, own, params.container)
             customized == customize(placed, params.element, own)
         IN IF built.threw # "" THEN built ELSE initAndReturn(customized, params.init)
    ELSE LET made == elementFor(Started(h, n), params.type, e)
             placed == appendTo(made, e, params.container)
             customized == customize(placed, params.element, e)
             built == newWidget(customized, params.type, e)
         IN IF built.threw # "" THEN built ELSE initAndReturn(built, params.init)

Create(params) ==
    \E e \in FreshElements :
        LET done == create(Heap, nextWidgetNumber, params, e)
        IN /\ nextWidgetNumber' = done.n
           /\ widgets' = done.h.widgets
           /\ data' = done.h.data
           /\ classes' = done.h.classes
           /\ handlers' = done.h.handlers
           /\ log' = done.log
           /\ outcome' = [op |-> "create", params |-> params,
                          threw |-> done.threw, value |-> done.value]

\* ---------------------------------------------------------------- lookups
\* What tryGetWidget / getWidget get as `this`: no object at all (target
\* Null), a selection of no element, or a selection of one element. text is
\* the selector text the selection was made from; selector is the selection
\* object's selector property: that text, or Undefined where the jQuery in
\* use has no such property (jQuery 3 removed it). The property is read for
\* a selection of no element only (line 218), so it varies there.
NoElement == "none"
Undefined == <<"undefined">>
Selections ==
    {[target |-> Null, text |-> <<>>, selector |-> Undefined]}
    \cup {[target |-> NoElement, text |-> <<"#", "x">>, selector |-> s] :
             s \in {<<"#", "x">>, Undefined}}
    \cup {[target |-> e, text |-> <<"#">> \o <<e>>, selector |-> <<"#">> \o <<e>>] :
             e \in Elements}

\* stringFormat(format, args): the pieces of the format, each placeholder
\* replaced by its argument, an undefined argument by the empty string
StringFormat(format, args) ==
    LET text(v) == IF v = Undefined THEN <<>> ELSE v
    IN [k \in 1..Len(format) |->
          IF format[k] = <<"{", "0", "}">> THEN text(args[1])
          ELSE IF format[k] = <<"{", "1", "}">> THEN text(args[2])
          ELSE format[k]]

NonExistentFormat ==
    << <<"Searching for widget of type '">>, <<"{", "0", "}">>,
       <<"' on a non-existent element! (">>, <<"{", "1", "}">>, <<")">> >>

NoWidgetFormat ==
    << <<"Element has no widget of type '">>, <<"{", "0", "}">>,
       <<"'! If you have recently changed editor type of a property in a form class, or changed data type in row (which also changes editor type) your script side Form definition might be out of date. Make sure your project builds successfully and transform T4 templates">> >>

\* getInstanceType(w) of a stored widget
getInstanceType(h, w) == h.widgets[w].type

\* tryGetWidget that returns the entry stored under the widget name without
\* checking its runtime type (no lines 189-191)
tryGetWidgetUnverified(h, sel, type) ==
    LET e == sel.target
        d == IF e \in Elements THEN h.data[e] ELSE <<>>
        viaName == isAssignableFrom("Widget", type)
        w == IF viaName THEN DataGet(d, getWidgetName(type)) ELSE NoWidget
        reads1 == IF viaName THEN <<[ev |-> "data"]>> ELSE <<>>
        hits == {k \in 1..Len(d) :
                    d[k][2] # NoWidget /\ isAssignableFrom(type, getInstanceType(h, d[k][2]))}
    IN IF e = Null THEN [value |-> NoWidget, reads |-> <<>>, threw |-> "TypeError"]
       ELSE IF w # NoWidget THEN [value |-> w, reads |-> reads1, threw |-> ""]
       ELSE IF hits # {}
            THEN [value |-> d[CHOOSE k \in hits : \A j \in hits : k <= j][2],
                  reads |-> reads1 \o <<[ev |-> "data"]>>, threw |-> ""]
       ELSE [value |-> NoWidget, reads |-> reads1 \o <<[ev |-> "data"]>>, threw |-> ""]

\* $.fn.tryGetWidget: the value returned (NoWidget for null), the reads of
\* the element's data made on the way, and what it threw: with no object as
\* `this` the first element.data(...) (line 187 or 195) is a TypeError
tryGetWidget(h, sel, type) ==
    LET e == sel.target
        d == IF e \in Elements THEN h.data[e] ELSE <<>>
        viaName == isAssignableFrom("Widget", type)
        stored == IF viaName THEN DataGet(d, getWidgetName(type)) ELSE NoWidget
        w == IF stored # NoWidget /\ ~isAssignableFrom(type, getInstanceType(h, stored))
             THEN NoWidget ELSE stored
        reads1 == IF viaName THEN <<[ev |-> "data"]>> ELSE <<>>
        hits == {k \in 1..Len(d) :
                    d[k][2] # NoWidget /\ isAssignableFrom(type, getInstanceType(h, d[k][2]))}
    IN IF e = Null THEN [value |-> NoWidget, reads |-> <<>>, threw |-> "TypeError"]
       ELSE IF w # NoWidget THEN [value |-> w, reads |-> reads1, threw |-> ""]
       ELSE IF e \notin Elements THEN [value |-> NoWidget, reads |-> reads1 \o <<[ev |-> "data"]>>, threw |-> ""]
       ELSE IF hits # {}
            THEN [value |-> d[CHOOSE k \in hits : \A j \in hits : k <= j][2],
                  reads |-> reads1 \o <<[ev |-> "data"]>>, threw |-> ""]
       ELSE [value |-> NoWidget, reads |-> reads1 \o <<[ev |-> "data"]>>, threw |-> ""]

\* getWidget without the check for a selection of no element (no lines 216-219)
getWidgetNoLengthCheck(h, sel, type) ==
    IF sel.target = Null
    THEN [threw |-> "ArgumentNullException", message |-> << <<"element">> >>,
          value |-> NoWidget, did |-> <<[ev |-> "throw"]>>]
    ELSE LET r == tryGetWidget(h, sel, type)
             message == StringFormat(NoWidgetFormat, <<getTypeFullName(type)>>)
         IN IF r.value = NoWidget
            THEN [threw |-> "Exception", message |-> message, value |-> NoWidget,
                  did |-> r.reads \o <<[ev |-> "notifyError", message |-> message],
                                      [ev |-> "throw"]>>]
            ELSE [threw |-> "", message |-> <<>>, value |-> r.value, did |-> r.reads]

\* getWidget that names the type by its widget name in the no-widget message
getWidgetWrongName(h, sel, type) ==
    IF sel.target = Null
    THEN [threw |-> "ArgumentNullException", message |-> << <<"element">> >>,
          value |-> NoWidget, did |-> <<[ev |-> "throw"]>>]
    ELSE IF sel.target = NoElement
    THEN [threw |-> "Exception",
          message |-> StringFormat(NonExistentFormat, <<getTypeFullName(type), sel.selector>>),
          value |-> NoWidget, did |-> <<[ev |-> "throw"]>>]
    ELSE LET r == tryGetWidget(h, sel, type)
             message == StringFormat(NoWidgetFormat, <<getWidgetName(type)>>)
         IN IF r.value = NoWidget
            THEN [threw |-> "Exception", message |-> message, value |-> NoWidget,
                  did |-> r.reads \o <<[ev |-> "notifyError", message |-> message],
                                      [ev |-> "throw"]>>]
            ELSE [threw |-> "", message |-> <<>>, value |-> r.value, did |-> r.reads]

\* getWidget that throws without calling notifyError (no line 227)
getWidgetSilent(h, sel, type) ==
    IF sel.target = Null
    THEN [threw |-> "ArgumentNullException", message |-> << <<"element">> >>,
          value |-> NoWidget, did |-> <<[ev |-> "throw"]>>]
    ELSE IF sel.target = NoElement
    THEN [threw |-> "Exception",
          message |-> StringFormat(NonExistentFormat, <<getTypeFullName(type), sel.selector>>),
          value |-> NoWidget, did |-> <<[ev |-> "throw"]>>]
    ELSE LET r == tryGetWidget(h, sel, type)
             message == StringFormat(NoWidgetFormat, <<getTypeFullName(type)>>)
         IN IF r.value = NoWidget
            THEN [threw |-> "Exception", message |-> message, value |-> NoWidget,
                  did |-> r.reads \o <<[ev |-> "throw"]>>]
            ELSE [threw |-> "", message |-> <<>>, value |-> r.value, did |-> r.reads]

\* $.fn.getWidget: what it throws (with which message) or returns, and what
\* it did on the way, in order
getWidget(h, sel, type) ==
    IF sel.target = Null
    THEN [threw |-> "ArgumentNullException", message |-> << <<"element">> >>,
          value |-> NoWidget, did |-> <<[ev |-> "throw"]>>]
    ELSE IF sel.target = NoElement
    THEN [threw |-> "Exception",
          message |-> StringFormat(NonExistentFormat, <<getTypeFullName(type), sel.selector>>),
          value |-> NoWidget, did |-> <<[ev |-> "throw"]>>]
    ELSE LET r == tryGetWidget(h, sel, type)
             message == StringFormat(NoWidgetFormat, <<getTypeFullName(type)>>)
         IN IF r.value = NoWidget
            THEN [threw |-> "Exception", message |-> message, value |-> NoWidget,
                  did |-> r.reads \o <<[ev |-> "notifyError", message |-> message],
                                      [ev |-> "throw"]>>]
            ELSE [threw |-> "", message |-> <<>>, value |-> r.value, did |-> r.reads]

\* selection.tryGetWidget(type)
TryGetWidget(sel, type) ==
    LET r == tryGetWidget(Heap, sel, type)
    IN /\ outcome' = [op |-> "tryGetWidget", sel |-> sel, type |-> type,
                      threw |-> r.threw, value |-> r.value]
       /\ log' = r.reads
       /\ UNCHANGED <<nextWidgetNumber, widgets, data, classes, handlers>>

\* selection.getWidget(type)
GetWidget(sel, type) ==
    LET r == getWidget(Heap, sel, type)
    IN /\ outcome' = [op |-> "getWidget", sel |-> sel, type |-> type,
                      threw |-> r.threw, value |-> r.value, message |-> r.message]
       /\ log' = r.did
       /\ UNCHANGED <<nextWidgetNumber, widgets, data, classes, handlers>>

\* ------------------------------------------------------- specifications
\* construction of the given types, destroy and removal notifications, with
\* the counter below maxNumber and at most maxWidgets widgets built
Lifecycle(types, maxNumber, maxWidgets) ==
    \/ \E t \in types, e \in Elements :
          /\ nextWidgetNumber < maxNumber
          /\ Len(widgets) < maxWidgets
          /\ Construct(t, e)
    \/ \E i \in 1..Len(widgets) : Destroy(i)
    \/ \E e \in Elements, b \in BOOLEAN, c \in BOOLEAN : RemoveNotify(e, b, c)

Subscriptions ==
    \/ \E i \in 1..Len(widgets), cb \in Callbacks : Change(i, cb)
    \/ \E i \in 1..Len(widgets), cb \in Callbacks : ChangeSelect2(i, cb)
    \/ \E e \in Elements, v \in ValueSets : TriggerChange(e, v)

Next == Lifecycle(WidgetTypes, MaxNumber, MaxWidgets)

Spec == Init /\ [][Next]_vars

\* the classes SpecEvents and SpecLong build: T and its subclass T1, whose
\* names differ by a trailing digit
DigitTypes == {"T", "T1"}

NextEvents == Lifecycle(DigitTypes, MaxNumberEvents, MaxWidgetsEvents) \/ Subscriptions

SpecEvents == Init /\ [][NextEvents]_vars

NextLong == Lifecycle(DigitTypes, MaxNumberLong, MaxWidgetsLong)

SpecLong == Init /\ [][NextLong]_vars

Lookups ==
    \/ \E sel \in Selections, t \in QueryTypes : TryGetWidget(sel, t)
    \/ \E sel \in Selections, t \in QueryTypes : GetWidget(sel, t)

\* the classes SpecLookup builds: T, its subclass T1, and NW, which implements
\* the interface and is stored under the key that N_W is looked up by
LookupTypes == {"T", "T1", "NW"}

NextLookup == Lifecycle(LookupTypes, MaxNumberLookup, MaxWidgetsLookup) \/ Lookups

SpecLookup == Init /\ [][NextLookup]_vars

\* create() and destroy(): the classes T and T1 and a dialog class
NextCreate ==
    \/ \E params \in CreateParams :
          /\ nextWidgetNumber + 2 <= MaxNumberCreate
          /\ Len(widgets) + 2 <= MaxWidgetsCreate
          /\ Create(params)
    \/ \E i \in 1..Len(widgets) : Destroy(i)

SpecCreate == Init /\ [][NextCreate]_vars

\* construction, destroy, removal notifications and addValidationRule, for two
\* classes that derive a common css class
NextRules ==
    \/ Lifecycle(SharedClassTypes, MaxNumberRules, MaxWidgetsRules)
    \/ \E i \in 1..Len(widgets), c \in EventClasses, r \in Rules : AddValidationRule(i, c, r)

SpecRules == Init /\ [][NextRules]_vars

\* getCssClass() as a function of the class's name and the configuration
NextCss == \E fullName \in CssNames, c \in RootConfigs : GetCssClass(fullName, c)

SpecCss == Init /\ [][NextCss]_vars

\* ------------------------------------------------------------ properties
Live(i) == widgets[i].element # Null

\* the selection of the one element e
Select(e) == [target |-> e, text |-> <<"#">> \o <<e>>, selector |-> <<"#">> \o <<e>>]

\* C1: any two distinct widgets built in the process have different unique
\* names (widget name followed by the counter's decimal value).
C1_UniqueNamesDistinct ==
    \A i, j \in 1..Len(widgets) :
        i # j => widgets[i].uniqueName # widgets[j].uniqueName

\* C2: constructing a widget on an element that carries a live widget of the
\* same concrete type throws the duplicate-widget error and leaves the
\* element's data, classes and handlers, and the widgets, as they were.
C2_DuplicateLeavesElement ==
    [][\A t \in WidgetTypes, e \in Elements :
          (/\ \E i \in 1..Len(widgets) : widgets[i].type = t /\ widgets[i].element = e
           /\ Construct(t, e))
          => /\ outcome'.threw = "Exception"
             /\ outcome'.message =
                   <<"The element already has widget '", getWidgetName(t), "'!">>
             /\ data' = data
             /\ classes' = classes
             /\ handlers' = handlers
             /\ widgets' = widgets]_vars

C2_Witness ==
    /\ outcome.op = "new"
    /\ outcome.threw = "Exception"
    /\ \E i \in 1..Len(widgets) :
          /\ Live(i)
          /\ widgets[i].widgetName = outcome.message[2]
          /\ DataGet(data[widgets[i].element], widgets[i].widgetName) = i

\* C3: on an element that carries a live widget of type t, constructing a
\* widget of any other type u succeeds, and then tryGetWidget(t) returns the
\* t widget and tryGetWidget(u) the u widget.
C3_DifferentTypesCoexist ==
    [][\A t \in WidgetTypes, u \in WidgetTypes, e \in Elements :
          \A i \in 1..Len(widgets) :
             (/\ t # u
              /\ widgets[i].type = t
              /\ widgets[i].element = e
              /\ Construct(u, e))
             => /\ outcome'.threw = ""
                /\ tryGetWidget(Heap', Select(e), t).value = i
                /\ tryGetWidget(Heap', Select(e), u).value = Len(widgets')
                /\ widgets'[Len(widgets')].type = u]_vars

\* C4: the first destroy() of a live widget removes its data entry and its
\* derived classes from the element and nulls its element reference; a
\* destroy() of a destroyed widget changes nothing anywhere.
C4_DestroyIdempotent ==
    [][\A i \in 1..Len(widgets) :
          (outcome'.op = "destroy" /\ Destroy(i)) =>
             IF Live(i)
             THEN LET e == widgets[i].element
                  IN /\ DataGet(data'[e], widgets[i].widgetName) = NoWidget
                     /\ classes'[e] \cap Range(getCssClass(widgets[i].type)) = {}
                     /\ widgets'[i].element = Null
             ELSE /\ widgets' = widgets
                  /\ data' = data
                  /\ classes' = classes
                  /\ handlers' = handlers
                  /\ nextWidgetNumber' = nextWidgetNumber]_vars

C4_Witness ==
    /\ outcome.op = "destroy"
    /\ outcome.noop
    /\ \E i \in 1..Len(widgets) : ~Live(i)
    /\ \E i \in 1..Len(widgets) : Live(i)

\* C5: a removal notification that neither bubbles nor is cancelable,
\* delivered to the element of a live widget, leaves that widget as
\* destroy() does (entry, classes and namespaced handlers gone, element
\* reference null); one that bubbles or is cancelable changes nothing.
C5_RemovalDestroys ==
    [][\A e \in Elements, b \in BOOLEAN, c \in BOOLEAN :
          RemoveNotify(e, b, c) =>
             IF ~b /\ ~c
             THEN \A i \in 1..Len(widgets) :
                     widgets[i].element = e =>
                        /\ widgets'[i].element = Null
                        /\ DataGet(data'[e], widgets[i].widgetName) = NoWidget
                        /\ classes'[e] \cap Range(getCssClass(widgets[i].type)) = {}
                        /\ \A k \in 1..Len(handlers'[e]) :
                              handlers'[e][k].ns \notin
                                 {widgets[i].widgetName, widgets[i].uniqueName}
             ELSE /\ widgets' = widgets
                  /\ data' = data
                  /\ classes' = classes
                  /\ handlers' = handlers]_vars

\* C6: a change notification invokes only handlers subscribed through
\* widgets that are live on the notified element: none subscribed through a
\* widget that has been destroyed, by destroy() or by a removal notification.
C6_NoCallAfterDestroy ==
    [][\A e \in Elements, v \in ValueSets :
          (outcome'.op = "trigger" /\ TriggerChange(e, v)) =>
             \A k \in 1..Len(log') :
                log'[k].ev = "call" => widgets[log'[k].widget].element = e]_vars

C6_Witness ==
    /\ outcome.op = "trigger"
    /\ log # <<>>
    /\ \E i \in 1..Len(widgets) : ~Live(i)
    /\ \E i \in 1..Len(widgets) : Live(i) /\ widgets[i].element = outcome.element

\* the message has s as one of its parts
Includes(message, s) == \E k \in 1..Len(message) : message[k] = s

DataReads == {k \in 1..Len(log) : log[k].ev = "data"}

Notifications == {k \in 1..Len(log) : log[k].ev = "notifyError"}

\* C7: getWidget on a selection of no element throws an error whose message
\* has the requested type's full name and the selector text; on no selection
\* object at all it throws the argument-null error; neither reads the data.
C7_EmptyAndNullSelection ==
    outcome.op = "getWidget" =>
        /\ outcome.sel.target = NoElement =>
              /\ outcome.threw = "Exception"
              /\ Includes(outcome.message, getTypeFullName(outcome.type))
              /\ Includes(outcome.message, outcome.sel.text)
              /\ DataReads = {}
        /\ outcome.sel.target = Null =>
              /\ outcome.threw = "ArgumentNullException"
              /\ DataReads = {}

\* the same for selections whose selector property holds the selector text
C7_WithSelectorProperty ==
    (outcome.op = "getWidget" /\ outcome.sel.selector = outcome.sel.text)
    => C7_EmptyAndNullSelection

\* C8: when getWidget throws on a selection of an element, its message has
\* the requested type's full name and the selector text.
C8_MessageHasNameAndSelector ==
    (outcome.op = "getWidget" /\ outcome.sel.target \in Elements /\ outcome.threw # "") =>
        /\ Includes(outcome.message, getTypeFullName(outcome.type))
        /\ Includes(outcome.message, outcome.sel.text)

\* the part of C8 about the type: when getWidget throws on a selection of an
\* element, its message has the requested type's full name.
C8_MessageHasName ==
    (outcome.op = "getWidget" /\ outcome.sel.target \in Elements /\ outcome.threw # "") =>
        /\ outcome.threw = "Exception"
        /\ Includes(outcome.message, getTypeFullName(outcome.type))

C8_Witness ==
    /\ outcome.op = "getWidget"
    /\ outcome.sel.target \in Elements
    /\ outcome.threw = "Exception"
    /\ data[outcome.sel.target] # <<>>

\* C9: when getWidget throws on a selection of an element, it has emitted
\* exactly one error notification, with the thrown message, before throwing;
\* when tryGetWidget finds a widget, getWidget returns it and notifies nothing.
C9_NotifyThenThrow ==
    (outcome.op = "getWidget" /\ outcome.sel.target \in Elements) =>
        LET found == tryGetWidget(Heap, outcome.sel, outcome.type).value
        IN IF found = NoWidget
           THEN /\ outcome.threw = "Exception"
                /\ Cardinality(Notifications) = 1
                /\ \A k \in Notifications :
                      /\ log[k].message = outcome.message
                      /\ \E j \in (k + 1)..Len(log) : log[j].ev = "throw"
                /\ log[Len(log)].ev = "throw"
           ELSE /\ outcome.threw = ""
                /\ outcome.value = found
                /\ Notifications = {}

C9_Witness ==
    /\ outcome.op = "getWidget"
    /\ outcome.sel.target \in Elements
    /\ outcome.threw = "Exception"
    /\ Cardinality(Notifications) = 1

\* C10: tryGetWidget never throws. With d the element's data entries: when
\* the entry under the requested type's widget name is assignable to the
\* type it is returned; otherwise the first assignable entry in key order;
\* nothing exactly when no entry is assignable. What it returns is live on
\* the element, so never a destroyed widget.
C10_TryGetWidget ==
    outcome.op = "tryGetWidget" =>
        LET e == outcome.sel.target
            type == outcome.type
            d == IF e \in Elements THEN data[e] ELSE <<>>
            fits == {k \in 1..Len(d) : isAssignableFrom(type, widgets[d[k][2]].type)}
            named == {k \in fits : d[k][1] = getWidgetName(type)}
        IN /\ outcome.threw = ""
           /\ IF named # {} THEN \E k \in named : outcome.value = d[k][2]
              ELSE IF fits # {} THEN \E k \in fits : /\ outcome.value = d[k][2]
                                                     /\ \A j \in fits : k <= j
              ELSE outcome.value = NoWidget
           /\ outcome.value # NoWidget => widgets[outcome.value].element = e

\* the same for calls on a selection object
C10_OnSelectionObject ==
    (outcome.op = "tryGetWidget" /\ outcome.sel.target # Null) => C10_TryGetWidget

C10_Witness ==
    /\ outcome.op = "tryGetWidget"
    /\ outcome.value # NoWidget
    /\ widgets[outcome.value].type # outcome.type
    /\ Len(data[outcome.sel.target]) = 2
    /\ \A k \in 1..2 :
          isAssignableFrom(outcome.type, widgets[data[outcome.sel.target][k][2]].type)

\* ------------------------------------------------------------------- C11
\* the handlers of one kind that widget i has subscribed on element e
Bound(e, i, kind) ==
    SelectSeq(handlers[e], LAMBDA x : x.event = "change" /\ x.kind = kind /\ x.widget = i)

CallsOf(i) == SelectSeq(log, LAMBDA c : c.ev = "call" /\ c.widget = i)

\* C11: a change notification calls every handler subscribed with change()
\* once whatever its second argument is, and every handler subscribed with
\* changeSelect2() once unless the second argument is exactly boolean true,
\* then not at all; nothing else is called.
C11_ChangeSelect2SkipsValueSet ==
    outcome.op = "trigger" =>
        /\ \A k \in 1..Len(log) : log[k].ev = "call"
        /\ \A i \in 1..Len(widgets) :
              Len(CallsOf(i)) =
                  Len(Bound(outcome.element, i, "change"))
                  + (IF outcome.valueSet = JsTrue THEN 0
                     ELSE Len(Bound(outcome.element, i, "changeSelect2")))

\* a notification carrying true reached an element where one widget has a
\* handler of each kind: one call was made
C11_Witness ==
    /\ outcome.op = "trigger" /\ outcome.valueSet = JsTrue /\ Len(log) = 1
    /\ \E i \in 1..Len(widgets) :
          /\ Bound(outcome.element, i, "change") # <<>>
          /\ Bound(outcome.element, i, "changeSelect2") # <<>>

\* ------------------------------------------------------------- C12, C13
\* the steps of the last create() that are of kind ev, as positions in log
Steps(ev) == {k \in 1..Len(log) : log[k].ev = ev}

IsDialog(t) == isAssignableFrom("IDialog", t)

\* C12: create() of a dialog class looks no element template up, constructs
\* the widget from the options alone, and the element it appends to the
\* container (when one is given) and hands to the customizer (when one is
\* given) is the element of the widget it built.
C12_DialogOwnsElement ==
    (outcome.op = "create" /\ IsDialog(outcome.params.type)) =>
        /\ Steps("elementFor") = {}
        /\ \A k \in Steps("new") : log[k].args = <<"options">>
        /\ outcome.threw = "" =>
              /\ \A k \in Steps("appendTo") \cup Steps("params.element") :
                    log[k].element = widgets[outcome.value].element
              /\ (Steps("appendTo") # {}) = (outcome.params.container # Null)
              /\ (Steps("params.element") # {}) = (outcome.params.element # "absent")

\* a dialog was created into a container, with a customizer
C12_Witness ==
    /\ outcome.op = "create" /\ outcome.params.type = "Dlg" /\ outcome.threw = ""
    /\ outcome.params.container # Null /\ outcome.params.element # "absent"
    /\ widgets[outcome.value].type = "Dlg"
    /\ Steps("appendTo") # {} /\ Steps("params.element") # {}

\* every step of the first kind comes before every step of the second
Before(ev1, ev2) == \A j \in Steps(ev1), k \in Steps(ev2) : j < k

\* C13: create() does its steps in a fixed order. For a class that is not a
\* dialog: the element is made, appended to the container when one is given,
\* handed to the customizer when one is given, and only then the widget is
\* constructed on it. In both branches the init hook runs after construction,
\* then the initializer when one is given, once, with the widget that was
\* built, which is the value returned. When construction throws, neither the
\* init hook nor the initializer runs.
C13_CreateOrder ==
    outcome.op = "create" =>
        LET p == outcome.params
        IN /\ \A ev \in {"elementFor", "appendTo", "params.element", "new", "init", "params.init"} :
                 Cardinality(Steps(ev)) <= 1
           /\ Cardinality(Steps("new")) = 1
           /\ ~IsDialog(p.type) =>
                 /\ Steps("elementFor") = {1}
                 /\ (Steps("appendTo") # {}) = (p.container # Null)
                 /\ (Steps("params.element") # {}) = (p.element # "absent")
                 /\ Before("elementFor", "appendTo")
                 /\ Before("appendTo", "params.element")
                 /\ Before("params.element", "new")
                 /\ Before("appendTo", "new")
                 /\ \A j \in Steps("elementFor") \cup Steps("appendTo") \cup Steps("params.element"),
                       k \in Steps("new") : log[j].element = log[k].element
           /\ outcome.threw = "" =>
                 /\ outcome.value \in 1..Len(widgets)
                 /\ widgets[outcome.value].type = p.type
                 /\ \A k \in Steps("new") : log[k].widget = outcome.value
                 /\ Cardinality(Steps("init")) = 1
                 /\ Cardinality(Steps("params.init")) = (IF p.init THEN 1 ELSE 0)
                 /\ Before("new", "init")
                 /\ Before("init", "params.init")
                 /\ \A k \in Steps("init") \cup Steps("params.init") :
                       log[k].widget = outcome.value
                 /\ Steps("init") \cup Steps("params.init") =
                       {k \in 1..Len(log) : k > Len(log) - (IF p.init THEN 2 ELSE 1)}
           /\ outcome.threw # "" =>
                 /\ Steps("init") = {} /\ Steps("params.init") = {}
                 /\ outcome.value = NoWidget

\* a widget of a class that is no dialog was created with a container, a
\* customizer and an initializer
C13_Witness ==
    /\ outcome.op = "create" /\ outcome.params.type = "T1" /\ outcome.threw = ""
    /\ outcome.params.container # Null /\ outcome.params.element = "buildT"
    /\ outcome.params.init
    /\ Len(log) = 6

\* create() whose construction threw
C13_ConstructionFailed ==
    outcome.op = "create" /\ outcome.threw = "Exception" /\ outcome.params.init

\* ------------------------------------------------------------- C14, C15
\* String.prototype.split(sep) for a one-character sep
RECURSIVE Split(_, _)
Split(s, sep) ==
    LET seps == {i \in 1..Len(s) : s[i] = sep}
        first == CHOOSE i \in seps : \A j \in seps : i <= j
    IN IF seps = {} THEN <<s>>
       ELSE <<SubSeq(s, 1, first - 1)>> \o Split(SubSeq(s, first + 1, Len(s)), sep)

\* the list without the elements that repeat an earlier one
RECURSIVE Dedup(_)
Dedup(s) ==
    IF s = <<>> THEN <<>>
    ELSE LET front == Dedup(SubSeq(s, 1, Len(s) - 1))
         IN IF s[Len(s)] \in Range(front) THEN front ELSE Append(front, s[Len(s)])

Marked(s) == [i \in 1..Len(s) |-> <<"s", "-">> \o s[i]]

DatePickerName == <<"A", "p", "p", ".", "W", "i", "d", "g", "e", "t", "s", ".", "D", "a", "t", "e", "P", "i", "c", "k", "e", "r">>
AppWidgets == <<"A", "p", "p", ".", "W", "i", "d", "g", "e", "t", "s">>

\* C14: getCssClass() is one to three tokens joined by single spaces, each
\* 's-' followed by a candidate, none repeated: first the full name with '.'
\* replaced by '-', last the short name unless it repeats an earlier
\* candidate, and between them at most one proper suffix of the first. For
\* App.Widgets.DatePicker under the root namespace App.Widgets it is
\* 's-App-Widgets-DatePicker s-DatePicker'.
C14_CssClassTokens ==
    outcome.op = "getCssClass" =>
        LET toks == Split(outcome.value, " ")
            fullClass == ReplaceAll(outcome.fullName, ".", "-")
            shortName == ShortName(outcome.fullName)
            n == Len(toks)
        IN /\ n \in 1..3
           /\ \A i, j \in 1..n : i # j => toks[i] # toks[j]
           /\ \A i \in 1..n : Len(toks[i]) > 2 /\ SubSeq(toks[i], 1, 2) = <<"s", "-">>
           /\ toks[1] = <<"s", "-">> \o fullClass
           /\ \E i \in 1..n : toks[i] = <<"s", "-">> \o shortName
           /\ toks[n] # <<"s", "-">> \o shortName => n < 3
           /\ n = 3 =>
                 \E k \in 1..(Len(fullClass) - 1) :
                     toks[2] = <<"s", "-">> \o Substring(fullClass, k)
           /\ toks = Dedup(toks)
           /\ (outcome.fullName = DatePickerName /\ outcome.rootNamespaces = <<AppWidgets>>) =>
                 outcome.value = <<"s", "-", "A", "p", "p", "-", "W", "i", "d", "g", "e", "t", "s", "-", "D", "a", "t", "e", "P", "i", "c", "k", "e", "r", " ", "s", "-", "D", "a", "t", "e", "P", "i", "c", "k", "e", "r">>

\* the class string of App.Widgets.DatePicker under the root namespace
\* App.Widgets was computed
C14_Witness ==
    /\ outcome.op = "getCssClass"
    /\ outcome.fullName = DatePickerName
    /\ outcome.rootNamespaces = <<AppWidgets>>
    /\ Len(Split(outcome.value, " ")) = 2

\* C15: when the full name starts with a configured root namespace followed
\* by '.', whatever the number of segments of that root namespace, the second
\* candidate class is the rest of the name after that prefix, taken for the
\* first such root namespace in configuration order, and there is one extra
\* class at most; when no root namespace is such a prefix there is none.
C15_RootNamespaceSuffix ==
    outcome.op = "getCssClass" =>
        LET roots == outcome.rootNamespaces
            fullName == outcome.fullName
            fullClass == ReplaceAll(fullName, ".", "-")
            matches == {k \in 1..Len(roots) : StartsWith(fullName, roots[k] \o <<".">>)}
            first == CHOOSE k \in matches : \A j \in matches : k <= j
            suffix == ReplaceAll(Substring(fullName, Len(roots[first]) + 1), ".", "-")
        IN Split(outcome.value, " ") =
              Marked(Dedup(<<fullClass>>
                           \o (IF matches = {} THEN <<>> ELSE <<suffix>>)
                           \o <<ShortName(fullName)>>))

\* the same for root namespaces of one segment only
C15_SingleSegmentRoots ==
    (outcome.op = "getCssClass"
     /\ \A k \in 1..Len(outcome.rootNamespaces) : "." \notin Range(outcome.rootNamespaces[k]))
    => C15_RootNamespaceSuffix

\* ------------------------------------------------------------------- C16
\* C16: on every element each widget-name key is stored once at most; a
\* widget stored on an element is live and bound to that element; a live
\* widget is stored on its element under its own widget name; a destroyed
\* widget is stored on no element.
C16_RegistryCoherent ==
    /\ \A e \in Elements :
          /\ \A j, k \in 1..Len(data[e]) : j # k => data[e][j][1] # data[e][k][1]
          /\ \A k \in 1..Len(data[e]) :
                /\ data[e][k][2] \in 1..Len(widgets)
                /\ widgets[data[e][k][2]].element = e
    /\ \A i \in 1..Len(widgets) :
          IF Live(i)
          THEN DataGet(data[widgets[i].element], widgets[i].widgetName) = i
          ELSE \A e \in Elements : \A k \in 1..Len(data[e]) : data[e][k][2] # i

\* a construction was refused on an element that holds a live widget, after
\* another widget was destroyed
C16_Witness ==
    /\ outcome.op = "new" /\ outcome.threw = "Exception"
    /\ \E i \in 1..Len(widgets) : Live(i) /\ data[widgets[i].element] = <<<<widgets[i].widgetName, i>>>>
    /\ \E i \in 1..Len(widgets) : ~Live(i)

\* ------------------------------------------------------------------- C17
\* the handlers bound on element e on behalf of widget i: its teardown
\* observer and its change / changeSelect2 subscriptions
HandlersOf(hs, e, i) == SelectSeq(hs[e], LAMBDA x : x.widget = i)

\* C17: destroying a live widget leaves every other live widget as it was:
\* its object, its data entry, its teardown observer and its change
\* subscriptions.
C17_DestroyLeavesOthers ==
    [][\A a \in 1..Len(widgets) :
          (Live(a) /\ Destroy(a)) =>
              \A b \in 1..Len(widgets) :
                  (b # a /\ Live(b)) =>
                      LET e == widgets[b].element
                      IN /\ widgets'[b] = widgets[b]
                         /\ DataGet(data'[e], widgets[b].widgetName) = b
                         /\ HandlersOf(handlers', e, b) = HandlersOf(handlers, e, b)]_vars

\* the same when neither namespace of the destroyed widget is a namespace of
\* the other one
C17_WithoutNameClash ==
    [][\A a \in 1..Len(widgets) :
          (Live(a) /\ Destroy(a)) =>
              \A b \in 1..Len(widgets) :
                  (/\ b # a /\ Live(b)
                   /\ {widgets[a].widgetName, widgets[a].uniqueName}
                        \cap {widgets[b].widgetName, widgets[b].uniqueName} = {})
                  => LET e == widgets[b].element
                     IN /\ widgets'[b] = widgets[b]
                        /\ DataGet(data'[e], widgets[b].widgetName) = b
                        /\ HandlersOf(handlers', e, b) = HandlersOf(handlers, e, b)]_vars

\* ------------------------------------------------------------------- C18
\* the classes getCssClass() derives for widget i
Derived(i) == Range(getCssClass(widgets[i].type))

\* C18: destroy() takes away only classes the widget's construction added:
\* the classes the element had before any widget was built on it stay on it,
\* and so do the classes derived for the widgets that are live on it.
C18_DestroyKeepsOtherClasses ==
    \A e \in Elements :
        /\ InitialClasses[e] \subseteq classes[e]
        /\ \A i \in 1..Len(widgets) : widgets[i].element = e => Derived(i) \subseteq classes[e]

\* C18 as the code has it: destroy() of a live widget takes the classes
\* derived for that widget off its element, whoever put them there, and
\* leaves every other class of that element and all classes of the other
\* elements.
C18_DestroyRemovesDerived ==
    [][\A a \in 1..Len(widgets) :
          (outcome'.op = "destroy" /\ Live(a) /\ Destroy(a)) =>
              LET e == widgets[a].element
              IN /\ classes'[e] \cap Derived(a) = {}
                 /\ classes'[e] \ Derived(a) = classes[e] \ Derived(a)
                 /\ \A f \in Elements \ {e} : classes'[f] = classes[f]]_vars

\* a widget was destroyed on an element where another widget is live, and a
\* class derived for that one went with it; the class the other element had
\* from the start went with an earlier destroy
C18_Witness ==
    /\ outcome.op = "destroy" /\ ~outcome.noop
    /\ \E i \in 1..Len(widgets) :
          /\ Live(i) /\ widgets[i].element = "e1"
          /\ ~(Derived(i) \subseteq classes["e1"])
    /\ InitialClasses["e2"] # {} /\ classes["e2"] = {}

====
